---- MODULE Spec2Model ----
(***************************************************************************)
(* Model of the rule-based study planner,                                  *)
(* src/app/controllers/study_planner_controller.py.                        *)
(*                                                                         *)
(* One planning call (generate_study_plan) is modelled as a state machine  *)
(* whose steps are the iterations of the day loop and, inside a day, the   *)
(* visits of the four priority passes.                                     *)
(*                                                                         *)
(* Hours are Python floats in the source.  Here they are fixed-point       *)
(* integers counted in ticks of 1/6000 hour (0.6 s), so that 0.01 h is 60  *)
(* ticks and a budget that is a multiple of 0.01 h divides exactly by any  *)
(* topic count from 1 to 5.  Dates are integer day numbers; day 0 is a     *)
(* Monday, so date.weekday() is the day number modulo 7.  Clock times are  *)
(* ticks since midnight.  A subject's name is its position in the request  *)
(* (names are unique identifiers); a topic's name is its position in the   *)
(* subject's topic list.                                                   *)
(***************************************************************************)
EXTENDS Integers, Sequences, FiniteSets, TLC

VARIABLES
    plan_request,               \* the request: subjects, dates, preferences
    subject_data,               \* mutable per-subject progress records
    high_importance_coverage,   \* date -> set of covered High subject names
    current_date,               \* the day loop's date
    hours_left,                 \* the current day's remaining budget
    current_time,               \* the current day's clock
    day_sessions,               \* sessions placed on the current day
    days,                       \* StudyDays appended so far
    unallocated_topics,         \* shortfall entries recorded so far
    queue,                      \* subjects the current pass has yet to visit
    pc,                         \* position in _generate_rule_based_schedule
    response                    \* the StudyPlanResponse, once returned

vars == << plan_request, subject_data, high_importance_coverage, current_date,
           hours_left, current_time, day_sessions, days, unallocated_topics,
           queue, pc, response >>

----------------------------------------------------------------------------
(* Units and small helpers *)

\* n hundredths of an hour, in ticks
Cent(n) == 60 * n

\* ticks in a day: time-of-day arithmetic wraps at midnight (datetime.time())
DayTicks == 24 * Cent(100)

Min(a, b) == IF a <= b THEN a ELSE b

Min3(a, b, c) == Min(a, Min(b, c))

RECURSIVE SumSeq(_)
SumSeq(s) == IF s = << >> THEN 0 ELSE Head(s) + SumSeq(Tail(s))

RECURSIVE Flatten(_)
Flatten(ss) == IF ss = << >> THEN << >> ELSE Head(ss) \o Flatten(Tail(ss))

\* date.weekday() >= 5, with day 0 a Monday
IsWeekend(d) == (d % 7) >= 5

\* (datetime.combine(today, t) + timedelta(hours = h)).time()
AddHours(t, h) == (t + h) % DayTicks

\* round(x, 1): to the nearest tenth of an hour, ties to the even tenth
Round1(x) ==
    LET tenth == Cent(10)
        q == x \div tenth
        r == x % tenth
    IN  IF 2 * r < tenth THEN q * tenth
        ELSE IF 2 * r > tenth THEN (q + 1) * tenth
        ELSE IF q % 2 = 0 THEN q * tenth ELSE (q + 1) * tenth

----------------------------------------------------------------------------
(* Program constants *)

\* time(9, 0): every day's clock starts at 09:00
StartHour == 9

\* exams fewer than this many days away make a subject urgent
UrgentDays == 5

\* at most this many topics per revision batch
MaxRevisionTopics == 5

\* a revision counts as completed once this many topics were revised
RevisionFloor == 3

\* target of an urgent visit: min(2.0, hours_left)
UrgentTarget == Cent(200)

\* target of a High-importance visit: min(1.0, hours_left)
HighTarget == Cent(100)

\* a pass stops once hours_left < 0.5
MinAllocation == Cent(50)

\* the 0.01 h tolerance of the completion and break tests
Tolerance == Cent(1)

\* revision stops at remaining_time <= 0.1 and skips slices under 0.1
RevisionMinSlice == Cent(10)

\* revision gives each topic at most 0.5 h
RevisionMaxSlice == Cent(50)

----------------------------------------------------------------------------
(* The request *)

\* topics.append({...}): the progress record of one topic
TopicData(i, estimated_hours) ==
    [ name            |-> i,
      hours_needed    |-> estimated_hours,
      remaining_hours |-> estimated_hours,
      completed       |-> FALSE ]

\* subject_data.append({...}): the progress record of one subject
SubjectData(i, subject) ==
    [ name                |-> i,
      has_exam            |-> subject.has_exam,
      exam_date           |-> subject.exam_date,
      importance          |-> subject.importance,
      topics              |-> [ k \in 1..Len(subject.topics) |->
                                  TopicData(k, subject.topics[k]) ],
      current_topic_index |-> 0,
      needs_revision      |-> subject.has_exam,
      revision_completed  |-> FALSE,
      subject_completed   |-> FALSE ]

\* IsBreakDay with the break-day test lost: no day is skipped
IsBreakDayNever(d, preferences) == FALSE

\* preferences.break_days and current_date in preferences.break_days
IsBreakDay(d, preferences) == d \in preferences.break_days

\* preferences.weekend_hours if is_weekend else preferences.weekday_hours
DayBudget(d, preferences) ==
    IF IsWeekend(d) THEN preferences.weekend_hours ELSE preferences.weekday_hours

----------------------------------------------------------------------------
(* _add_regular_session *)

\* what an allocator hands back: the mutated subject, the hours charged to the
\* day's budget, the updated clock and the sessions appended to day_sessions
NoAllocation(subject, ctime) ==
    [ subject |-> subject, hours_used |-> 0, time |-> ctime, sessions |-> << >> ]

\* FirstOpenTopic that takes the last topic with work left, not the first
FirstOpenTopicFromEnd(topics, i) ==
    LET open == { k \in i..(Len(topics) - 1) :
                    ~(topics[k + 1].remaining_hours <= Tolerance \/ topics[k + 1].completed) }
    IN  IF open = { } THEN Len(topics)
        ELSE CHOOSE k \in open : \A m \in open : m <= k

\* the cursor loop: skip topics that are finished
RECURSIVE FirstOpenTopic(_, _)
FirstOpenTopic(topics, i) ==
    IF i >= Len(topics) THEN i
    ELSE IF topics[i + 1].remaining_hours <= Tolerance \/ topics[i + 1].completed
         THEN FirstOpenTopic(topics, i + 1)
         ELSE i

\* SessionDuration without the cap of max_session_duration
SessionDurationUncapped(max_session_duration, available_hours, remaining_hours) ==
    Min(available_hours, remaining_hours)

\* SessionDuration without the cap of the topic's remaining hours
SessionDurationFullSlot(max_session_duration, available_hours, remaining_hours) ==
    Min(max_session_duration, available_hours)

\* min(max_session_duration, available_hours, topic["remaining_hours"])
SessionDuration(max_session_duration, available_hours, remaining_hours) ==
    Min3(max_session_duration, available_hours, remaining_hours)

\* available_hours - session_duration > 0.01: a break follows the session
BreakFollows(available_hours, session_duration) ==
    available_hours - session_duration > Tolerance

AddRegularSession(subject, date, ctime, available_hours, max_session_duration, break_duration) ==
    IF subject.subject_completed THEN NoAllocation(subject, ctime)
    ELSE
    LET i == FirstOpenTopic(subject.topics, subject.current_topic_index) IN
    IF i >= Len(subject.topics)
    THEN NoAllocation([subject EXCEPT !.current_topic_index = i,
                                      !.subject_completed = TRUE], ctime)
    ELSE
    LET topic    == subject.topics[i + 1]
        duration == SessionDuration(max_session_duration, available_hours,
                                    topic.remaining_hours)
        end_time == AddHours(ctime, duration)
        session  == [ subject        |-> subject.name,
                      topic          |-> topic.name,
                      date           |-> date,
                      start_time     |-> ctime,
                      end_time       |-> end_time,
                      duration_hours |-> duration,
                      session_type   |-> "regular" ]
        left     == topic.remaining_hours - duration
        done     == left <= Tolerance
        after    == [subject EXCEPT
                       !.topics[i + 1].remaining_hours = left,
                       !.topics[i + 1].completed = (done \/ topic.completed),
                       !.current_topic_index = IF done THEN i + 1 ELSE i]
    IN  IF BreakFollows(available_hours, duration)
        THEN [ subject    |-> after,
               hours_used |-> duration + break_duration,
               time       |-> AddHours(ctime, duration + break_duration),
               sessions   |-> << session >> ]
        ELSE [ subject    |-> after,
               hours_used |-> duration,
               time       |-> end_time,
               sessions   |-> << session >> ]

----------------------------------------------------------------------------
(* _add_revision_session *)

\* len([t for t in subject["topics"] if not t["completed"]])
EligibleTopics(subject) ==
    Cardinality({ k \in 1..Len(subject.topics) : ~subject.topics[k].completed })

\* min(0.5, remaining_time / topics_to_revise); the quotient is exact when
\* the budget is a multiple of 0.01 h and is otherwise rounded down by less
\* than one tick
TimePerTopic(available_hours, topics_to_revise) ==
    Min(RevisionMaxSlice, available_hours \div topics_to_revise)

\* the while loop of the batch; st is its local state
RECURSIVE RevisionLoop(_, _, _, _, _, _, _)
RevisionLoop(subject, date, max_session_duration, break_duration, time_per_topic, topics_to_revise, st) ==
    IF ~( st.topic_index < Len(subject.topics)
          /\ st.topics_revised < topics_to_revise
          /\ st.remaining_time > RevisionMinSlice )
    THEN st
    ELSE
    LET topic    == subject.topics[st.topic_index + 1]
        duration == Min3(max_session_duration, st.remaining_time, time_per_topic)
    IN  IF duration < RevisionMinSlice
        THEN RevisionLoop(subject, date, max_session_duration, break_duration,
                          time_per_topic, topics_to_revise,
                          [st EXCEPT !.topic_index = @ + 1])
        ELSE
        LET end_time == AddHours(st.time, duration)
            session  == [ subject        |-> subject.name,
                          topic          |-> topic.name,
                          date           |-> date,
                          start_time     |-> st.time,
                          end_time       |-> end_time,
                          duration_hours |-> duration,
                          session_type   |-> "revision" ]
            rest     == st.remaining_time - duration
            pause    == rest > RevisionMinSlice
        IN  RevisionLoop(subject, date, max_session_duration, break_duration,
                         time_per_topic, topics_to_revise,
               [ topic_index    |-> st.topic_index + 1,
                 topics_revised |-> st.topics_revised + 1,
                 remaining_time |-> IF pause THEN rest - break_duration ELSE rest,
                 hours_used     |-> IF pause
                                    THEN st.hours_used + duration + break_duration
                                    ELSE st.hours_used + duration,
                 time           |-> IF pause
                                    THEN AddHours(st.time, duration + break_duration)
                                    ELSE end_time,
                 sessions       |-> Append(st.sessions, session) ])

AddRevisionSession(subject, date, ctime, available_hours, max_session_duration, break_duration) ==
    IF subject.revision_completed \/ subject.subject_completed
    THEN NoAllocation(subject, ctime)
    ELSE
    LET total_topics     == EligibleTopics(subject)
        topics_to_revise == Min(total_topics, MaxRevisionTopics)
    IN  IF topics_to_revise = 0 THEN NoAllocation(subject, ctime)
        ELSE
        LET st == RevisionLoop(subject, date, max_session_duration, break_duration,
                     TimePerTopic(available_hours, topics_to_revise),
                     topics_to_revise,
                     [ topic_index    |-> 0,
                       topics_revised |-> 0,
                       remaining_time |-> available_hours,
                       hours_used     |-> 0,
                       time           |-> ctime,
                       sessions       |-> << >> ])
        IN  [ subject    |-> IF st.topics_revised >= Min(RevisionFloor, total_topics)
                             THEN [subject EXCEPT !.revision_completed = TRUE]
                             ELSE subject,
              hours_used |-> st.hours_used,
              time       |-> st.time,
              sessions   |-> st.sessions ]

----------------------------------------------------------------------------
(* The requests explored *)

\* last day of the planning range of the general requests (day 0 is a Monday)
LastDay == 5

Importances == { "High", "Medium", "Low" }

\* a quick topic (0.9 h) alone, and a quick topic followed by a long one (3 h)
TopicLists == { << Cent(90) >>, << Cent(90), Cent(300) >> }

\* no exam; an exam before the range starts; an exam inside the range; an
\* exam after the range ends
ExamChoices ==
    { [ has_exam |-> FALSE, exam_date |-> 0 ] }
      \cup { [ has_exam |-> TRUE, exam_date |-> d ] : d \in { -1, 3, 6 } }

SubjectChoices ==
    { [ importance |-> imp, has_exam |-> e.has_exam, exam_date |-> e.exam_date,
        topics |-> ts ] : imp \in Importances, e \in ExamChoices, ts \in TopicLists }

\* requests with no subject, one subject or two subjects
SubjectLists ==
    { << >> } \cup { << a >> : a \in SubjectChoices }
              \cup { << a, b >> : a \in SubjectChoices, b \in SubjectChoices }

PreferenceChoices ==
    [ weekday_hours        : { Cent(100), Cent(300) },
      weekend_hours        : { Cent(500) },
      break_duration       : { Cent(25) },
      session_duration     : { Cent(150) },
      revision_days_before : { 2, 5 },
      break_days           : { {}, {3} } ]

GeneralRequests ==
    [ subjects    : SubjectLists,
      start_date  : { 0 },
      end_date    : { LastDay },
      preferences : PreferenceChoices ]

\* one subject and sessions of at most 0.4 h, shorter than a revision slice
ShortSessionRequests ==
    [ subjects    : { << a >> : a \in SubjectChoices },
      start_date  : { 0 },
      end_date    : { LastDay },
      preferences : { [ p EXCEPT !.session_duration = Cent(40) ] :
                        p \in PreferenceChoices } ]

\* an inverted range (end_date before start_date), with no subject or one
InvertedRequests ==
    [ subjects    : { << >> } \cup { << a >> : a \in SubjectChoices },
      start_date  : { 0 },
      end_date    : { -1 },
      preferences : PreferenceChoices ]

\* one subject and a weekday budget of 0.5 h, the least that opens a pass
TightBudgetRequests ==
    [ subjects    : { << a >> : a \in SubjectChoices },
      start_date  : { 0 },
      end_date    : { LastDay },
      preferences : { [ p EXCEPT !.weekday_hours = Cent(50) ] : p \in PreferenceChoices } ]

\* daily budgets of zero or below zero, with no subject or one
NonPositiveBudgetRequests ==
    [ subjects    : { << >> } \cup { << a >> : a \in SubjectChoices },
      start_date  : { 0 },
      end_date    : { LastDay },
      preferences : { [ p EXCEPT !.weekday_hours = h, !.weekend_hours = h ] :
                        p \in PreferenceChoices, h \in { 0, -Cent(100) } } ]

\* the worked example: one High subject, topics of 3 h and 2 h, exam on day 10,
\* 2 h on weekdays, sessions of at most 1.5 h, revision 2 days before the exam,
\* 14 days from a Monday, no break days
ScenarioRequests ==
    [ subjects    : { << [ importance |-> "High", has_exam |-> TRUE,
                           exam_date |-> 10,
                           topics |-> << Cent(300), Cent(200) >> ] >> },
      start_date  : { 0 },
      end_date    : { 13 },
      preferences : [ weekday_hours        : { Cent(200) },
                      weekend_hours        : { Cent(200), Cent(500) },
                      break_duration       : { 0, Cent(25) },
                      session_duration     : { Cent(150) },
                      revision_days_before : { 2 },
                      break_days           : { {} } ] ]

\* one subject whose first topic has no hours, for the cursor to skip
EmptyTopicRequests ==
    [ subjects    : { << [ a EXCEPT !.topics = << 0, Cent(90) >> ] >> : a \in SubjectChoices },
      start_date  : { 0 },
      end_date    : { LastDay },
      preferences : PreferenceChoices ]

\* days of 16 h with sessions of up to 8 h: one or two Medium subjects
\* without an exam, each with one topic of 8 h
LongDayRequests ==
    [ subjects    : { << a >> : a \in { [ importance |-> "Medium", has_exam |-> FALSE,
                                          exam_date |-> 0, topics |-> << Cent(800) >> ] } }
                    \cup { << a, a >> : a \in { [ importance |-> "Medium",
                                                  has_exam |-> FALSE, exam_date |-> 0,
                                                  topics |-> << Cent(800) >> ] } },
      start_date  : { 0 },
      end_date    : { LastDay },
      preferences : [ weekday_hours        : { Cent(1600) },
                      weekend_hours        : { Cent(1600) },
                      break_duration       : { Cent(25) },
                      session_duration     : { Cent(800) },
                      revision_days_before : { 2 },
                      break_days           : { {} } ] ]

Requests ==
    GeneralRequests \cup ShortSessionRequests \cup TightBudgetRequests \cup InvertedRequests
      \cup NonPositiveBudgetRequests \cup ScenarioRequests \cup LongDayRequests
      \cup EmptyTopicRequests

----------------------------------------------------------------------------
(* generate_study_plan: the advisory totals and the response *)

\* SubjectHoursNeeded without the surcharge for an exam
SubjectHoursNeededPlain(subject) == SumSeq(subject.topics)

\* sum(topic.estimated_hours ...) plus half of it again when there is an exam
SubjectHoursNeeded(subject) ==
    LET subject_hours == SumSeq(subject.topics)
    IN  IF subject.has_exam THEN subject_hours + subject_hours \div 2
        ELSE subject_hours

TotalHoursNeeded(subjects) ==
    SumSeq([ i \in 1..Len(subjects) |-> SubjectHoursNeeded(subjects[i]) ])

\* the first while loop: budget of every non-break date from d to end_date
RECURSIVE AvailableHours(_, _, _)
AvailableHours(d, end_date, preferences) ==
    IF d > end_date THEN 0
    ELSE IF IsBreakDay(d, preferences)
         THEN AvailableHours(d + 1, end_date, preferences)
         ELSE DayBudget(d, preferences) + AvailableHours(d + 1, end_date, preferences)

AllSessions(ds) == Flatten([ i \in 1..Len(ds) |-> ds[i].sessions ])

\* subjects_distribution: hours per subject that has at least one session
SubjectsDistribution(ds) ==
    LET ss == AllSessions(ds)
        names == { ss[i].subject : i \in 1..Len(ss) }
    IN  [ n \in names |->
            SumSeq([ i \in 1..Len(ss) |->
                       IF ss[i].subject = n THEN ss[i].duration_hours ELSE 0 ]) ]

NoResponse ==
    [ returned           |-> FALSE,
      total_study_hours  |-> 0,
      insufficient_time  |-> FALSE,
      total_hours_needed |-> 0,
      available_hours    |-> 0 ]

\* StudyPlanResponse with the advisory comparison made non-strict
StudyPlanResponseAtMost(request, ds) ==
    LET ss == AllSessions(ds)
        needed == TotalHoursNeeded(request.subjects)
        available == AvailableHours(request.start_date, request.end_date,
                                    request.preferences)
    IN  [ returned           |-> TRUE,
          total_study_hours  |-> SumSeq([ i \in 1..Len(ss) |-> ss[i].duration_hours ]),
          insufficient_time  |-> available <= needed,
          total_hours_needed |-> needed,
          available_hours    |-> available ]

StudyPlanResponse(request, ds) ==
    LET ss == AllSessions(ds)
        needed == TotalHoursNeeded(request.subjects)
        available == AvailableHours(request.start_date, request.end_date,
                                    request.preferences)
    IN  [ returned           |-> TRUE,
          total_study_hours  |-> SumSeq([ i \in 1..Len(ss) |-> ss[i].duration_hours ]),
          insufficient_time  |-> available < needed,
          total_hours_needed |-> needed,
          available_hours    |-> available ]

----------------------------------------------------------------------------
(* _generate_rule_based_schedule: the day loop *)

Init ==
    /\ plan_request \in Requests
    /\ subject_data = [ i \in 1..Len(plan_request.subjects) |->
                          SubjectData(i, plan_request.subjects[i]) ]
    /\ high_importance_coverage = << >>
    /\ current_date = plan_request.start_date
    /\ hours_left = 0
    /\ current_time = 0
    /\ day_sessions = << >>
    /\ days = << >>
    /\ unallocated_topics = << >>
    /\ queue = << >>
    /\ pc = "day"
    /\ response = NoResponse

Preferences == plan_request.preferences

\* [s for s in subject_data if ...]: the subjects that satisfy the pass's
\* filter, by index, in input order
PassList(due) ==
    SelectSeq([ i \in 1..Len(subject_data) |-> i ], LAMBDA i : due[i])

\* exam_date - timedelta(days = revision_days_before)
RevisionDay(subject) == subject.exam_date - Preferences.revision_days_before

\* NeedsRevisionToday with the revision due from the revision day onwards
NeedsRevisionFromRevisionDay(subject) ==
    /\ current_date >= RevisionDay(subject)
    /\ ~subject.revision_completed

\* current_date == revision_day and not subject["revision_completed"]
NeedsRevisionToday(subject) ==
    /\ current_date = RevisionDay(subject)
    /\ ~subject.revision_completed

\* Step 1 filter: an exam fewer than 5 days away and not yet past
IsUrgent(s) ==
    /\ s.has_exam
    /\ ~s.subject_completed
    /\ s.exam_date - current_date < UrgentDays
    /\ s.exam_date >= current_date

CoveredToday ==
    IF current_date \in DOMAIN high_importance_coverage
    THEN high_importance_coverage[current_date] ELSE {}

\* IsHighDue that forgets who was covered in Step 1
IsHighDueUncovered(s) == s.importance = "High" /\ ~s.subject_completed

\* Step 2 filter
IsHighDue(s) ==
    /\ s.importance = "High"
    /\ ~s.subject_completed
    /\ s.name \notin CoveredToday

\* IsMediumDue that lets Low subjects into Step 3
IsMediumDueWithLow(s) == s.importance \in { "Medium", "Low" } /\ ~s.subject_completed

\* Step 3 filter
IsMediumDue(s) == s.importance = "Medium" /\ ~s.subject_completed

\* Step 4 filter
IsLowDue(s) == s.importance = "Low" /\ ~s.subject_completed

\* SkipBreakDay that continues without advancing the date
SkipBreakDayStalled ==
    /\ pc = "day"
    /\ current_date <= plan_request.end_date
    /\ IsBreakDay(current_date, Preferences)
    /\ UNCHANGED vars

\* while current_date <= end_date, on a break day: skip it
SkipBreakDay ==
    /\ pc = "day"
    /\ current_date <= plan_request.end_date
    /\ IsBreakDay(current_date, Preferences)
    /\ current_date' = current_date + 1
    /\ UNCHANGED << plan_request, subject_data, high_importance_coverage,
                    hours_left, current_time, day_sessions, days,
                    unallocated_topics, queue, pc, response >>

\* a schedulable day begins: budget, clock, empty session list, urgent list
StartDay ==
    /\ pc = "day"
    /\ current_date <= plan_request.end_date
    /\ ~IsBreakDay(current_date, Preferences)
    /\ high_importance_coverage' =
         [ d \in DOMAIN high_importance_coverage \cup { current_date } |->
             IF d = current_date THEN {} ELSE high_importance_coverage[d] ]
    /\ hours_left' = DayBudget(current_date, Preferences)
    /\ current_time' = StartHour * Cent(100)
    /\ day_sessions' = << >>
    /\ queue' = PassList([ i \in 1..Len(subject_data) |-> IsUrgent(subject_data[i]) ])
    /\ pc' = "urgent"
    /\ UNCHANGED << plan_request, subject_data, current_date, days,
                    unallocated_topics, response >>

\* one allocator call of a pass and the caller's bookkeeping after it
Allocate(i, revise, target) ==
    LET subject == subject_data[i]
        r == IF revise
             THEN AddRevisionSession(subject, current_date, current_time, target,
                    Preferences.session_duration, Preferences.break_duration)
             ELSE AddRegularSession(subject, current_date, current_time, target,
                    Preferences.session_duration, Preferences.break_duration)
    IN  /\ subject_data' =
              [subject_data EXCEPT ![i] =
                 IF revise THEN [r.subject EXCEPT !.revision_completed = TRUE]
                 ELSE r.subject]
        /\ hours_left' = hours_left - r.hours_used
        /\ current_time' = r.time
        /\ day_sessions' = day_sessions \o r.sessions

Cover(i) ==
    high_importance_coverage' =
        [high_importance_coverage EXCEPT ![current_date] = @ \cup { subject_data[i].name }]

\* Step 1, one iteration: revision batch or regular session of up to 2 h
UrgentVisit ==
    /\ pc = "urgent"
    /\ queue # << >>
    /\ hours_left >= MinAllocation
    /\ LET i == Head(queue) IN
         /\ Allocate(i, NeedsRevisionToday(subject_data[i]),
                     Min(UrgentTarget, hours_left))
         /\ IF subject_data[i].importance = "High"
            THEN Cover(i) ELSE UNCHANGED high_importance_coverage
    /\ queue' = Tail(queue)
    /\ UNCHANGED << plan_request, current_date, days, unallocated_topics, pc,
                    response >>

\* Step 1 ends (list exhausted or budget under 0.5 h); Step 2's list is built
UrgentDone ==
    /\ pc = "urgent"
    /\ (queue = << >> \/ hours_left < MinAllocation)
    /\ queue' = PassList([ i \in 1..Len(subject_data) |-> IsHighDue(subject_data[i]) ])
    /\ pc' = "high"
    /\ UNCHANGED << plan_request, subject_data, high_importance_coverage,
                    current_date, hours_left, current_time, day_sessions, days,
                    unallocated_topics, response >>

\* Step 2, one iteration: revision batch (not marked covered) or regular
\* session of up to 1 h (marked covered)
HighVisit ==
    /\ pc = "high"
    /\ queue # << >>
    /\ hours_left >= MinAllocation
    /\ LET i == Head(queue)
           revise == subject_data[i].has_exam /\ NeedsRevisionToday(subject_data[i])
       IN  /\ Allocate(i, revise, Min(HighTarget, hours_left))
           /\ IF revise THEN UNCHANGED high_importance_coverage ELSE Cover(i)
    /\ queue' = Tail(queue)
    /\ UNCHANGED << plan_request, current_date, days, unallocated_topics, pc,
                    response >>

HighDone ==
    /\ pc = "high"
    /\ (queue = << >> \/ hours_left < MinAllocation)
    /\ queue' = PassList([ i \in 1..Len(subject_data) |-> IsMediumDue(subject_data[i]) ])
    /\ pc' = "medium"
    /\ UNCHANGED << plan_request, subject_data, high_importance_coverage,
                    current_date, hours_left, current_time, day_sessions, days,
                    unallocated_topics, response >>

\* TierVisit without the half-hour floor that ends a pass
TierVisitNoFloor ==
    /\ queue # << >>
    /\ LET i == Head(queue)
           revise == subject_data[i].has_exam /\ NeedsRevisionToday(subject_data[i])
       IN  Allocate(i, revise, hours_left)
    /\ queue' = Tail(queue)
    /\ UNCHANGED << plan_request, high_importance_coverage, current_date, days,
                    unallocated_topics, pc, response >>

\* Steps 3 and 4, one iteration: the target is all of hours_left
TierVisit ==
    /\ queue # << >>
    /\ hours_left >= MinAllocation
    /\ LET i == Head(queue)
           revise == subject_data[i].has_exam /\ NeedsRevisionToday(subject_data[i])
       IN  Allocate(i, revise, hours_left)
    /\ queue' = Tail(queue)
    /\ UNCHANGED << plan_request, high_importance_coverage, current_date, days,
                    unallocated_topics, pc, response >>

MediumVisit == pc = "medium" /\ TierVisit

MediumDone ==
    /\ pc = "medium"
    /\ (queue = << >> \/ hours_left < MinAllocation)
    /\ queue' = PassList([ i \in 1..Len(subject_data) |-> IsLowDue(subject_data[i]) ])
    /\ pc' = "low"
    /\ UNCHANGED << plan_request, subject_data, high_importance_coverage,
                    current_date, hours_left, current_time, day_sessions, days,
                    unallocated_topics, response >>

LowVisit == pc = "low" /\ TierVisit

LowDone ==
    /\ pc = "low"
    /\ (queue = << >> \/ hours_left < MinAllocation)
    /\ queue' = << >>
    /\ pc' = "eod"
    /\ UNCHANGED << plan_request, subject_data, high_importance_coverage,
                    current_date, hours_left, current_time, day_sessions, days,
                    unallocated_topics, response >>

\* all(topic["remaining_hours"] <= 0.01 or topic["completed"] ...)
AllTopicsDone(subject) ==
    \A k \in 1..Len(subject.topics) :
        subject.topics[k].remaining_hours <= Tolerance \/ subject.topics[k].completed

\* the end-of-day test, against the date the loop has just advanced to
CompletesNow(subject, date) ==
    \/ subject.has_exam /\ subject.exam_date < date
    \/ AllTopicsDone(subject)
         /\ (subject.revision_completed \/ ~subject.needs_revision)

\* Shortfall that reports every topic of the subject
ShortfallOfAll(subject) ==
    [ k \in 1..Len(subject.topics) |->
        [ subject         |-> subject.name,
          topic           |-> subject.topics[k].name,
          hours_remaining |-> Round1(subject.topics[k].remaining_hours) ] ]

\* the entries appended for one subject that has just been completed
Shortfall(subject) ==
    LET open == SelectSeq(subject.topics,
                   LAMBDA t : t.remaining_hours > Tolerance /\ ~t.completed)
    IN  [ k \in 1..Len(open) |->
            [ subject         |-> subject.name,
              topic           |-> open[k].name,
              hours_remaining |-> Round1(open[k].remaining_hours) ] ]

\* EndDay that assigns subject_completed from the day's test instead of
\* latching it
EndDayRecomputes ==
    /\ pc = "eod"
    /\ days' = IF day_sessions # << >>
               THEN Append(days, [ date |-> current_date, sessions |-> day_sessions ])
               ELSE days
    /\ current_date' = current_date + 1
    /\ LET closing(s) == ~s.subject_completed /\ CompletesNow(s, current_date + 1)
       IN  /\ subject_data' =
                 [ i \in 1..Len(subject_data) |->
                     [subject_data[i] EXCEPT !.subject_completed =
                        CompletesNow(subject_data[i], current_date + 1)] ]
           /\ unallocated_topics' =
                 unallocated_topics \o
                 Flatten([ i \in 1..Len(subject_data) |->
                             IF closing(subject_data[i])
                             THEN Shortfall(subject_data[i]) ELSE << >> ])
    /\ pc' = "day"
    /\ UNCHANGED << plan_request, high_importance_coverage, hours_left,
                    current_time, day_sessions, queue, response >>

\* the day is recorded if it has sessions, the date advances, and completion
\* is evaluated for every subject not yet completed
EndDay ==
    /\ pc = "eod"
    /\ days' = IF day_sessions # << >>
               THEN Append(days, [ date |-> current_date, sessions |-> day_sessions ])
               ELSE days
    /\ current_date' = current_date + 1
    /\ LET closing(s) == ~s.subject_completed /\ CompletesNow(s, current_date + 1)
       IN  /\ subject_data' =
                 [ i \in 1..Len(subject_data) |->
                     IF closing(subject_data[i])
                     THEN [subject_data[i] EXCEPT !.subject_completed = TRUE]
                     ELSE subject_data[i] ]
           /\ unallocated_topics' =
                 unallocated_topics \o
                 Flatten([ i \in 1..Len(subject_data) |->
                             IF closing(subject_data[i])
                             THEN Shortfall(subject_data[i]) ELSE << >> ])
    /\ pc' = "day"
    /\ UNCHANGED << plan_request, high_importance_coverage, hours_left,
                    current_time, day_sessions, queue, response >>

\* the loop ends; generate_study_plan totals the sessions and returns
Finish ==
    /\ pc = "day"
    /\ current_date > plan_request.end_date
    /\ response' = StudyPlanResponse(plan_request, days)
    /\ pc' = "done"
    /\ UNCHANGED << plan_request, subject_data, high_importance_coverage,
                    current_date, hours_left, current_time, day_sessions, days,
                    unallocated_topics, queue >>

Next ==
    \/ SkipBreakDay
    \/ StartDay
    \/ UrgentVisit
    \/ UrgentDone
    \/ HighVisit
    \/ HighDone
    \/ MediumVisit
    \/ MediumDone
    \/ LowVisit
    \/ LowDone
    \/ EndDay
    \/ Finish

Spec == Init /\ [][Next]_vars

\* the requests termination is checked on: every request of at most one
\* subject, and the two-subject requests that have a break day, so that the
\* day loop takes both of its branches
TerminationRequests ==
    { r \in Requests :
        Len(r.subjects) = 2 =>
            /\ r.preferences.break_days # { }
            /\ r.preferences.revision_days_before = 5 }

FairInit == Init /\ plan_request \in TerminationRequests

\* the call runs on one thread from entry to return: whenever a step of the
\* procedure is possible, one is eventually taken
FairSpec == FairInit /\ [][Next]_vars /\ WF_vars(Next)

----------------------------------------------------------------------------
(* Vocabulary of the properties *)

\* the four passes of a day are running, or have just finished
InDay == pc \in { "urgent", "high", "medium", "low", "eod" }

\* every session placed so far, in order of placement
PlacedSessions == AllSessions(days) \o (IF InDay THEN day_sessions ELSE << >>)

SeqSet(s) == { s[i] : i \in 1..Len(s) }

\* total duration of the sessions of ss that satisfy keep
HoursOf(ss, keep(_)) ==
    SumSeq([ i \in 1..Len(ss) |-> IF keep(ss[i]) THEN ss[i].duration_hours ELSE 0 ])

SubjectIds == 1..Len(subject_data)

TopicIds(i) == 1..Len(subject_data[i].topics)

\* hours of regular sessions given so far to topic k of subject i
RegularHours(i, k) ==
    HoursOf(PlacedSessions,
            LAMBDA s : s.subject = i /\ s.topic = k /\ s.session_type = "regular")

\* the sessions the step being taken appends to the current day
NewSessions ==
    IF Len(day_sessions') > Len(day_sessions)
    THEN SubSeq(day_sessions', Len(day_sessions) + 1, Len(day_sessions'))
    ELSE << >>

IsRevisionOf(i, s) == s.session_type = "revision" /\ s.subject = i

----------------------------------------------------------------------------
(* C1: a day's sessions and charged breaks stay within the day's budget *)

\* C1: at every point of the four passes hours_left is at least -0.01 h, that
\* is, the durations and the breaks charged on a day never exceed its budget
C1_BudgetNeverOverdrawn == InDay => hours_left >= -Tolerance

----------------------------------------------------------------------------
(* C2: session lengths *)

\* C2: every session emitted, regular or revision, has a positive duration of
\* at most preferences.session_duration
C2_SessionLengthBounded ==
    \A s \in SeqSet(PlacedSessions) :
        s.duration_hours > 0 /\ s.duration_hours <= Preferences.session_duration

\* a returned plan holding a regular session and a revision session that
\* were both cut at session_duration, and a shorter regular session
C2_Witness ==
    /\ pc = "done"
    /\ \E s \in SeqSet(PlacedSessions) :
          s.session_type = "regular" /\ s.duration_hours = Preferences.session_duration
    /\ \E s \in SeqSet(PlacedSessions) :
          s.session_type = "regular" /\ s.duration_hours < Preferences.session_duration
    /\ \E s \in SeqSet(PlacedSessions) :
          s.session_type = "revision" /\ s.duration_hours = Preferences.session_duration

----------------------------------------------------------------------------
(* C3: a topic is never over-allocated *)

\* C3: for every topic, at every step, the regular hours allocated to it so
\* far are at most its estimated_hours (within 0.01 h), they are exactly what
\* its remaining_hours has dropped by, and remaining_hours is at least -0.01 h
C3_TopicNeverOverAllocated ==
    \A i \in SubjectIds : \A k \in TopicIds(i) :
        LET topic == subject_data[i].topics[k] IN
        /\ RegularHours(i, k) <= topic.hours_needed + Tolerance
        /\ topic.remaining_hours >= -Tolerance
        /\ topic.remaining_hours = topic.hours_needed - RegularHours(i, k)

\* a topic allocated in full through sessions on at least two different days
C3_Witness ==
    \E i \in SubjectIds : \E k \in TopicIds(i) :
        /\ RegularHours(i, k) = subject_data[i].topics[k].hours_needed
        /\ \E a, b \in SeqSet(PlacedSessions) :
              /\ a.subject = i /\ a.topic = k /\ a.session_type = "regular"
              /\ b.subject = i /\ b.topic = k /\ b.session_type = "regular"
              /\ a.date # b.date

----------------------------------------------------------------------------
(* C4: leftover demand is reported *)

\* C4: when the plan is returned, every topic with remaining_hours > 0.01 h
\* has an entry in unallocated_topics, whatever its subject's exam_date
C4_LeftoverReported ==
    pc = "done" =>
        \A i \in SubjectIds : \A k \in TopicIds(i) :
            subject_data[i].topics[k].remaining_hours > Tolerance =>
                \E u \in SeqSet(unallocated_topics) : u.subject = i /\ u.topic = k

----------------------------------------------------------------------------
(* C5: nothing is placed after a subject's exam *)

\* C5: no session of a subject is dated after the subject's exam_date, and
\* once the plan is returned the leftover topics of a subject whose exam has
\* passed are in unallocated_topics
C5_NoSessionAfterExam ==
    /\ \A s \in SeqSet(PlacedSessions) :
          subject_data[s.subject].has_exam =>
              s.date <= subject_data[s.subject].exam_date
    /\ pc = "done" =>
          \A i \in SubjectIds :
              (subject_data[i].has_exam /\ subject_data[i].exam_date < current_date) =>
              \A k \in TopicIds(i) :
                  subject_data[i].topics[k].remaining_hours > Tolerance =>
                      \E u \in SeqSet(unallocated_topics) :
                          u.subject = i /\ u.topic = k

----------------------------------------------------------------------------
(* C6: revision only on the revision day, one batch per subject *)

\* the step being taken emits revision sessions for subject i
EmitsRevision(i) == \E s \in SeqSet(NewSessions) : IsRevisionOf(i, s)

\* C6: every revision session of a subject is dated exam_date minus
\* revision_days_before, and a step that emits revision sessions for a subject
\* finds no earlier revision session of that subject in the plan: one batch,
\* on one day, in one pass
C6_RevisionOnceOnRevisionDay ==
    [][ /\ \A s \in SeqSet(PlacedSessions') :
              s.session_type = "revision" =>
                  /\ plan_request.subjects[s.subject].has_exam
                  /\ s.date = plan_request.subjects[s.subject].exam_date
                                - plan_request.preferences.revision_days_before
        /\ \A i \in SubjectIds :
              EmitsRevision(i) =>
                  ~\E s \in SeqSet(PlacedSessions) : IsRevisionOf(i, s)
      ]_vars

\* a returned plan in which a Medium subject that was urgent on its revision
\* day got its revision batch in the urgent pass and then, in the Medium pass
\* of the same day, a regular session and no second batch
C6_Witness ==
    /\ pc = "done"
    /\ \E i \in SubjectIds : \E a, c \in SeqSet(PlacedSessions) :
          /\ subject_data[i].importance = "Medium"
          /\ IsRevisionOf(i, a)
          /\ c.subject = i /\ c.session_type = "regular" /\ c.date = a.date

----------------------------------------------------------------------------
(* C7: every subject with an exam gets its revision *)

\* today's sessions of subject i
TodayOf(i) == SelectSeq(day_sessions, LAMBDA s : s.subject = i)

\* C7: at the end of a schedulable day that is a subject's revision day, if
\* at least 0.5 h of budget is still left (so at least 0.5 h was left whenever
\* the subject was or would have been reached), the day holds at least one
\* revision session of that subject
C7_RevisionAlwaysGiven ==
    pc = "eod" =>
        \A i \in SubjectIds :
            ( /\ subject_data[i].has_exam
              /\ current_date = subject_data[i].exam_date
                                  - Preferences.revision_days_before
              /\ hours_left >= MinAllocation ) =>
            \E s \in SeqSet(day_sessions) : IsRevisionOf(i, s)

----------------------------------------------------------------------------
(* C8: Rule 1, two hours a day for an urgent subject *)

\* topic work subject i still had when the current day began
RemainingAtDayStart(i) ==
    SumSeq([ k \in TopicIds(i) |-> subject_data[i].topics[k].remaining_hours ])
      + HoursOf(TodayOf(i), LAMBDA s : s.session_type = "regular")

\* C8: at the end of a schedulable day with a budget of at least 2 h, a
\* subject whose exam is 0 to 4 days away and which began the day with at
\* least 2 h of topic work has got at least 2 h of sessions that day
C8_UrgentGetsTwoHours ==
    pc = "eod" =>
        \A i \in SubjectIds :
            ( /\ subject_data[i].has_exam
              /\ subject_data[i].exam_date - current_date >= 0
              /\ subject_data[i].exam_date - current_date < UrgentDays
              /\ DayBudget(current_date, Preferences) >= Cent(200)
              /\ RemainingAtDayStart(i) >= Cent(200) ) =>
            HoursOf(TodayOf(i), LAMBDA s : TRUE) >= Cent(200)

----------------------------------------------------------------------------
(* C9: Rule 2, daily coverage of High-importance subjects *)

\* C9: whenever the High pass visits (with hours_left >= 0.5 h) a subject
\* whose exam is at least 5 days away, then after the visit the subject has a
\* session on that day, unless the visit found it completed
C9_HighCoveredDaily ==
    [][ ( /\ pc = "high" /\ queue # << >> /\ hours_left >= MinAllocation
          /\ subject_data[Head(queue)].has_exam
          /\ subject_data[Head(queue)].exam_date - current_date >= UrgentDays
          /\ ~subject_data'[Head(queue)].subject_completed ) =>
        \E s \in SeqSet(day_sessions') : s.subject = Head(queue)
      ]_vars

----------------------------------------------------------------------------
(* C10: the worked example *)

InScenario == plan_request \in ScenarioRequests

\* regular hours given to topic k of the scenario's subject on day d
ScenarioHours(k, d) ==
    HoursOf(PlacedSessions,
            LAMBDA s : s.topic = k /\ s.date = d /\ s.session_type = "regular")

\* C10: in the worked example topic A gets 1.5 h on each of the first two
\* days, topic B starts on the third day, the revision day (day 8, two days
\* before the exam on day 10) holds a revision session for each of the two
\* topics, and the subject is marked completed, but not before day 10
C10_WorkedExample ==
    InScenario =>
        /\ subject_data[1].subject_completed => current_date >= 10
        /\ pc = "done" =>
              /\ ScenarioHours(1, 0) = Cent(150)
              /\ ScenarioHours(1, 1) = Cent(150)
              /\ ScenarioHours(2, 2) > 0
              /\ \A d \in 0..1 : ScenarioHours(2, d) = 0
              /\ \A k \in 1..2 :
                    \E s \in SeqSet(PlacedSessions) :
                        s.session_type = "revision" /\ s.topic = k /\ s.date = 8
              /\ subject_data[1].subject_completed

----------------------------------------------------------------------------
(* C11: break days are skipped entirely *)

\* the dates of the planning range, in order
RangeDates ==
    [ k \in 1..(plan_request.end_date - plan_request.start_date + 1) |->
        plan_request.start_date + k - 1 ]

\* the budget a date contributes when break days contribute nothing
BudgetUnlessBreak(d) ==
    IF d \in plan_request.preferences.break_days THEN 0
    ELSE IF d % 7 \in { 5, 6 } THEN plan_request.preferences.weekend_hours
    ELSE plan_request.preferences.weekday_hours

\* C11: no session and no StudyDay is dated on a break day, on a break day the
\* passes never run, and the returned available_hours counts no break day
C11_BreakDaysSkipped ==
    /\ \A s \in SeqSet(PlacedSessions) :
          s.date \notin plan_request.preferences.break_days
    /\ \A d \in SeqSet(days) : d.date \notin plan_request.preferences.break_days
    /\ InDay => current_date \notin plan_request.preferences.break_days
    /\ pc = "done" =>
          response.available_hours =
              SumSeq([ k \in DOMAIN RangeDates |-> BudgetUnlessBreak(RangeDates[k]) ])

\* a returned plan with a break day inside the range, sessions on the day
\* before it and on the day after it, and a positive available_hours
C11_Witness ==
    /\ pc = "done"
    /\ response.available_hours > 0
    /\ \E b \in plan_request.preferences.break_days :
          /\ \E d \in SeqSet(days) : d.date = b - 1
          /\ \E d \in SeqSet(days) : d.date = b + 1

----------------------------------------------------------------------------
(* C12: inverted ranges and budgets of zero or less *)

InvertedRange == plan_request.end_date < plan_request.start_date

NonPositiveBudgets ==
    /\ plan_request.preferences.weekday_hours <= 0
    /\ plan_request.preferences.weekend_hours <= 0

\* C12: with end_date before start_date, or with weekday and weekend budgets
\* of zero or less, no session is ever placed, and the plan returned has no
\* scheduled day and total_study_hours = 0; with an inverted range its
\* available_hours is 0 as well
C12_DegenerateInputGivesEmptyPlan ==
    (InvertedRange \/ NonPositiveBudgets) =>
        /\ days = << >>
        /\ day_sessions = << >>
        /\ pc = "done" =>
              /\ response.returned
              /\ response.total_study_hours = 0
              /\ InvertedRange => response.available_hours = 0

\* a plan returned for a negative daily budget: the day loop ran over the
\* whole range, the subject's exam passed and its topics were reported, and
\* no day was scheduled
C12_Witness ==
    /\ pc = "done"
    /\ plan_request.preferences.weekday_hours < 0
    /\ plan_request.subjects # << >>
    /\ current_date = plan_request.end_date + 1
    /\ unallocated_topics # << >>
    /\ days = << >>

----------------------------------------------------------------------------
(* C13: no subjects *)

NonNegativeBudgets ==
    /\ plan_request.preferences.weekday_hours >= 0
    /\ plan_request.preferences.weekend_hours >= 0

\* C13: with zero subjects and budgets that are not negative, whatever the
\* date range, break days and other preferences, the plan has no scheduled
\* day and no unallocated topic, and the response returned has
\* total_study_hours = 0 and insufficient_time = false
C13_NoSubjectsGivesEmptyPlan ==
    (plan_request.subjects = << >> /\ NonNegativeBudgets) =>
        /\ days = << >>
        /\ unallocated_topics = << >>
        /\ pc = "done" =>
              /\ response.returned
              /\ response.total_study_hours = 0
              /\ response.total_hours_needed = 0
              /\ ~response.insufficient_time

\* a plan returned for no subjects over a range with hours on offer: the day
\* loop walked the whole range and found nothing to place
C13_Witness ==
    /\ pc = "done"
    /\ plan_request.subjects = << >>
    /\ NonNegativeBudgets
    /\ current_date = plan_request.end_date + 1
    /\ current_date > plan_request.start_date
    /\ response.available_hours > 0

----------------------------------------------------------------------------
(* C14: termination *)

\* iterations of _add_regular_session's while loop for a subject: one per
\* topic skipped by the cursor, and one more for the topic given a session
RegularIterations(subject) ==
    LET i == FirstOpenTopic(subject.topics, subject.current_topic_index)
    IN  (i - subject.current_topic_index) + (IF i < Len(subject.topics) THEN 1 ELSE 0)

\* iterations of _add_revision_session's while loop for a subject and a
\* budget: the loop index after the loop has ended
RevisionIterations(subject, available_hours) ==
    LET n == Min(EligibleTopics(subject), MaxRevisionTopics)
    IN  IF n = 0 THEN 0
        ELSE RevisionLoop(subject, current_date, Preferences.session_duration,
                          Preferences.break_duration,
                          TimePerTopic(available_hours, n), n,
                          [ topic_index    |-> 0,
                            topics_revised |-> 0,
                            remaining_time |-> available_hours,
                            hours_used     |-> 0,
                            time           |-> current_time,
                            sessions       |-> << >> ]).topic_index

\* a step that ends an iteration of the day loop
DayLoopIterates ==
    \/ pc = "eod"
    \/ /\ pc = "day"
       /\ current_date <= plan_request.end_date
       /\ current_date \in plan_request.preferences.break_days

AllocatorLoopsBounded ==
    \A i \in SubjectIds :
        /\ subject_data[i].current_topic_index \in 0..Len(subject_data[i].topics)
        /\ RegularIterations(subject_data[i]) <= Len(subject_data[i].topics)
        /\ \A target \in { hours_left, Min(UrgentTarget, hours_left),
                           Min(HighTarget, hours_left) } :
              RevisionIterations(subject_data[i], target) <= Len(subject_data[i].topics)

\* C14: the planning call always returns; every iteration of the day loop,
\* on a break day or not, moves current_date forward by exactly one day and
\* no other step moves it, the loop stops as soon as current_date is past
\* end_date, and each allocator's loop runs at most len(topics) times
C14_AlwaysTerminates ==
    /\ <>(pc = "done")
    /\ [][ IF DayLoopIterates THEN current_date' = current_date + 1
                              ELSE current_date' = current_date ]_vars
    /\ [](current_date <= plan_request.end_date + 1 \/ current_date = plan_request.start_date)
    /\ [](pc = "done" => current_date > plan_request.end_date)
    /\ []AllocatorLoopsBounded

\* the call has returned after the day loop went over a break day and over
\* days with sessions, one of them a revision batch that ran its loop twice
C14_Witness ==
    /\ pc = "done"
    /\ current_date = plan_request.end_date + 1
    /\ plan_request.preferences.break_days # { }
    /\ \E s, t \in SeqSet(PlacedSessions) :
          /\ s.session_type = "revision" /\ t.session_type = "revision"
          /\ s.date = t.date /\ s.subject = t.subject /\ s.topic # t.topic

----------------------------------------------------------------------------
(* C15: the advisory *)

\* twice the demand of the request: 3 times the estimated hours of a subject
\* with an exam date, 2 times those of a subject without
TwiceDemand ==
    SumSeq([ i \in 1..Len(plan_request.subjects) |->
               IF plan_request.subjects[i].has_exam
               THEN 3 * SumSeq(plan_request.subjects[i].topics)
               ELSE 2 * SumSeq(plan_request.subjects[i].topics) ])

Supply == SumSeq([ k \in DOMAIN RangeDates |-> BudgetUnlessBreak(RangeDates[k]) ])

\* C15: in the response total_hours_needed is the sum over subjects of the
\* topics' estimated hours, times 1.5 for a subject with an exam date;
\* available_hours is the sum over the non-break dates of the range of the
\* weekday or weekend budget; insufficient_time is true exactly when
\* available_hours < total_hours_needed; and the schedule does not depend on
\* it: the advisory exists only in the response, which is built from a
\* schedule that is already final and is left as it is
C15_AdvisoryFormulas ==
    /\ [](pc = "done" =>
            /\ 2 * response.total_hours_needed = TwiceDemand
            /\ response.available_hours = Supply
            /\ response.insufficient_time <=> (2 * Supply < TwiceDemand))
    /\ [](pc # "done" => response = NoResponse)
    /\ [][ response' # response =>
             /\ days' = days
             /\ unallocated_topics' = unallocated_topics
             /\ subject_data' = subject_data
             /\ pc' = "done" ]_vars

\* a response that reports insufficient time for two subjects, one with an
\* exam date and one without, over a range with a break day, with sessions
\* scheduled all the same
C15_Witness ==
    /\ pc = "done"
    /\ response.insufficient_time
    /\ \E i, j \in 1..Len(plan_request.subjects) :
          plan_request.subjects[i].has_exam /\ ~plan_request.subjects[j].has_exam
    /\ plan_request.preferences.break_days # { }
    /\ response.total_study_hours > 0
    /\ response.available_hours > 0

----------------------------------------------------------------------------
(* C16: when a subject becomes completed *)

\* C16: subject_completed of a subject goes from false to true only in the
\* end-of-day evaluation, and then only if the date just advanced to is past
\* its exam date, or all its topics have at most 0.01 h left and its revision
\* is completed or it has no exam date; so a completed subject with an exam
\* date still to come has revision_completed true
C16_CompletedOnlyAtEndOfDay ==
    /\ [][ \A i \in SubjectIds :
             (~subject_data[i].subject_completed /\ subject_data'[i].subject_completed) =>
                /\ pc = "eod"
                /\ \/ subject_data[i].has_exam /\ subject_data[i].exam_date < current_date'
                   \/ /\ \A k \in TopicIds(i) :
                            subject_data'[i].topics[k].remaining_hours <= Tolerance
                      /\ subject_data'[i].revision_completed \/ ~subject_data[i].has_exam
         ]_vars
    /\ [](\A i \in SubjectIds :
            ( /\ subject_data[i].subject_completed
              /\ subject_data[i].has_exam
              /\ subject_data[i].exam_date >= current_date ) =>
            subject_data[i].revision_completed)

----------------------------------------------------------------------------
(* C17: when a revision counts as completed *)

\* topics of subject i that are not completed, the ones a batch may count
EligibleOf(i) == EligibleTopics(subject_data[i])

\* the revision sessions of subject i the step being taken emits
NewRevisions(i) == SelectSeq(NewSessions, LAMBDA s : IsRevisionOf(i, s))

\* C17: a step that turns a subject's revision_completed from false to true
\* emits at least min(3, number of eligible topics) revision sessions of that
\* subject; a batch cut short below that floor leaves the flag false
C17_RevisionCompletedNeedsFloor ==
    [][ \A i \in SubjectIds :
          (~subject_data[i].revision_completed /\ subject_data'[i].revision_completed) =>
             Len(NewRevisions(i)) >= Min(RevisionFloor, EligibleOf(i)) ]_vars

----------------------------------------------------------------------------
(* C18: which topics a revision batch takes *)

\* the step being taken is a visit of subject i that calls for its revision
RevisionVisit(i) ==
    /\ pc \in { "urgent", "high", "medium", "low" }
    /\ queue # << >>
    /\ Head(queue) = i
    /\ queue' = Tail(queue)
    /\ subject_data[i].has_exam
    /\ NeedsRevisionToday(subject_data[i])

\* the budget the pass hands to the allocator on a visit
VisitTarget ==
    IF pc = "urgent" THEN Min(UrgentTarget, hours_left)
    ELSE IF pc = "high" THEN Min(HighTarget, hours_left)
    ELSE hours_left

\* the budget pays for n slices of 0.5 h with a break between them
AmpleFor(n) ==
    VisitTarget >= n * RevisionMaxSlice + (n - 1) * Preferences.break_duration

\* C18: a revision batch has at most 5 sessions, none longer than 0.5 h, and
\* when the budget pays for every slice it has exactly min(5, N) sessions,
\* one for each of the first min(5, N) topics of the subject in list order,
\* N being the number of the subject's topics, completed or not
C18_BatchTakesFirstTopics ==
    [][ \A i \in SubjectIds :
          RevisionVisit(i) =>
             LET batch == NewRevisions(i)
                 n     == Min(MaxRevisionTopics, Len(subject_data[i].topics))
             IN  /\ Len(batch) <= MaxRevisionTopics
                 /\ \A k \in 1..Len(batch) : batch[k].duration_hours <= RevisionMaxSlice
                 /\ AmpleFor(n) =>
                       [ k \in 1..Len(batch) |-> batch[k].topic ] = [ k \in 1..n |-> k ]
      ]_vars

----------------------------------------------------------------------------
(* C19: Low subjects come last *)

\* subject i is Low and today is not within 5 days before its exam
LowNotUrgent(i) ==
    /\ subject_data[i].importance = "Low"
    /\ ~( /\ subject_data[i].has_exam
          /\ subject_data[i].exam_date >= current_date
          /\ subject_data[i].exam_date - current_date < UrgentDays )

HasTopicWork(i) ==
    \E k \in TopicIds(i) :
        /\ subject_data[i].topics[k].remaining_hours > Tolerance
        /\ ~subject_data[i].topics[k].completed

\* C19: a Low subject that is not urgent is given sessions only in the Low
\* pass, entered with at least 0.5 h left after the urgent, High and Medium
\* passes; in the day's list no session of a Medium subject follows a session
\* of such a Low subject; and on a day with such a session every High or
\* Medium subject that is not completed and has topic work left has a session
C19_LowComesLast ==
    /\ [][ \A s \in SeqSet(NewSessions) :
             LowNotUrgent(s.subject) => pc = "low" /\ hours_left >= MinAllocation ]_vars
    /\ [](InDay =>
            /\ \A a, b \in 1..Len(day_sessions) :
                  (a < b /\ LowNotUrgent(day_sessions[a].subject)) =>
                     subject_data[day_sessions[b].subject].importance # "Medium"
            /\ (\E s \in SeqSet(day_sessions) : LowNotUrgent(s.subject)) =>
                  \A j \in SubjectIds :
                     ( /\ subject_data[j].importance \in { "High", "Medium" }
                       /\ ~subject_data[j].subject_completed
                       /\ HasTopicWork(j) ) =>
                     \E s \in SeqSet(day_sessions) : s.subject = j)

\* the end of a day on which a Medium subject that still has topic work was
\* served first and a Low subject that is not urgent after it
C19_Witness ==
    /\ pc = "eod"
    /\ \E a, b \in 1..Len(day_sessions) :
          /\ a < b
          /\ subject_data[day_sessions[a].subject].importance = "Medium"
          /\ HasTopicWork(day_sessions[a].subject)
          /\ ~subject_data[day_sessions[a].subject].subject_completed
          /\ LowNotUrgent(day_sessions[b].subject)

----------------------------------------------------------------------------
(* C20: what is reported as unallocated *)

Abs(x) == IF x < 0 THEN -x ELSE x

\* the entries of unallocated_topics for topic k of subject i
EntriesOf(i, k) ==
    SelectSeq(unallocated_topics, LAMBDA e : e.subject = i /\ e.topic = k)

\* hours h reported for a topic with r hours remaining: r itself, or the
\* multiple of 0.1 h nearest to r
Reports(h, r, exact) ==
    IF exact THEN h = r
    ELSE h % Cent(10) = 0 /\ 2 * Abs(h - r) <= Cent(10)

\* a subject that becomes completed in the step being taken has every topic
\* with more than 0.01 h remaining in unallocated_topics
NewlyCompletedReported ==
    \A i \in SubjectIds :
        (~subject_data[i].subject_completed /\ subject_data'[i].subject_completed) =>
           \A k \in TopicIds(i) :
              subject_data'[i].topics[k].remaining_hours > Tolerance =>
                 \E e \in SeqSet(unallocated_topics') : e.subject = i /\ e.topic = k

NoPairTwice ==
    \A i \in SubjectIds : \A k \in TopicIds(i) : Len(EntriesOf(i, k)) <= 1

\* every entry is of a completed subject's topic with more than 0.01 h
\* remaining, reported as Reports says
EntriesSound(exact) ==
    \A e \in SeqSet(unallocated_topics) :
        /\ subject_data[e.subject].subject_completed
        /\ subject_data[e.subject].topics[e.topic].remaining_hours > Tolerance
        /\ Reports(e.hours_remaining,
                   subject_data[e.subject].topics[e.topic].remaining_hours, exact)

\* C20 as stated: when a subject becomes completed every topic of it with
\* remaining_hours > 0.01 is recorded in unallocated_topics with exactly its
\* remaining hours, no pair is recorded twice, and no topic with
\* remaining_hours <= 0.01 is recorded
C20_ShortfallRecordedExactly ==
    /\ [][NewlyCompletedReported]_vars
    /\ []NoPairTwice
    /\ []EntriesSound(TRUE)

\* C20 amended: when a subject becomes completed every topic of it with
\* remaining_hours > 0.01 is recorded in unallocated_topics with its remaining
\* hours rounded to one decimal, no pair is recorded twice, and no topic with
\* remaining_hours <= 0.01 is recorded
C20_ShortfallRecordedRounded ==
    /\ [][NewlyCompletedReported]_vars
    /\ []NoPairTwice
    /\ []EntriesSound(FALSE)

\* a subject completed with one topic finished and unreported and the other
\* reported with hours that differ from what remains of it
C20_Witness ==
    \E i \in SubjectIds :
        /\ subject_data[i].subject_completed
        /\ \E k \in TopicIds(i) :
              /\ subject_data[i].topics[k].remaining_hours <= Tolerance
              /\ Len(EntriesOf(i, k)) = 0
        /\ \E k \in TopicIds(i) :
              /\ Len(EntriesOf(i, k)) = 1
              /\ EntriesOf(i, k)[1].hours_remaining
                    # subject_data[i].topics[k].remaining_hours

----------------------------------------------------------------------------
(* C21: a completed subject stays completed and untouched *)

\* C21: once subject_completed is set for a subject, every later step leaves
\* it set, emits no session of that subject, regular or revision, and leaves
\* the remaining_hours of all its topics as they are
C21_CompletedIsAbsorbing ==
    [][ \A i \in SubjectIds :
          subject_data[i].subject_completed =>
             /\ subject_data'[i].subject_completed
             /\ \A s \in SeqSet(NewSessions) : s.subject # i
             /\ \A k \in TopicIds(i) :
                   subject_data'[i].topics[k].remaining_hours
                      = subject_data[i].topics[k].remaining_hours ]_vars

\* the end of a later day that still has at least 0.5 h of budget left, with
\* sessions of another subject, while a subject completed on an earlier day
\* keeps topic work that was never given
C21_Witness ==
    /\ pc = "eod"
    /\ hours_left >= MinAllocation
    /\ day_sessions # << >>
    /\ \E i \in SubjectIds :
          /\ subject_data[i].subject_completed
          /\ HasTopicWork(i)
          /\ \E e \in SeqSet(unallocated_topics) : e.subject = i
          /\ \A s \in SeqSet(day_sessions) : s.subject # i

----------------------------------------------------------------------------
(* C22: the sessions of a day in clock order *)

\* the session lists of the days recorded and of the day in progress
DayLists ==
    { days[k].sessions : k \in 1..Len(days) }
      \cup (IF InDay THEN { day_sessions } ELSE { })

\* C22: in every day's list the first session starts at 09:00, every session
\* ends at its start_time plus its duration_hours, and every later session
\* starts at the end_time of the session before it or break_duration after it
C22_SessionsInClockOrder ==
    \A ss \in DayLists :
        /\ ss # << >> => ss[1].start_time = StartHour * Cent(100)
        /\ \A k \in 1..Len(ss) : ss[k].end_time = ss[k].start_time + ss[k].duration_hours
        /\ \A k \in 2..Len(ss) :
              ss[k].start_time \in { ss[k - 1].end_time,
                                     ss[k - 1].end_time + Preferences.break_duration }

----------------------------------------------------------------------------
(* C23: topics in list order *)

\* every topic of subject i before topic j has at most 0.01 h remaining
EarlierTopicsDone(i, j) ==
    \A k \in 1..(j - 1) : subject_data[i].topics[k].remaining_hours <= Tolerance

\* C23: current_topic_index never decreases; a regular session goes to the
\* first topic in list order that has more than 0.01 h remaining when it is
\* placed; so every topic that has a regular session has only finished topics
\* before it
C23_TopicsInListOrder ==
    /\ [][ \A i \in SubjectIds :
             subject_data'[i].current_topic_index >= subject_data[i].current_topic_index
         ]_vars
    /\ [][ \A s \in SeqSet(NewSessions) :
             s.session_type = "regular" =>
                /\ subject_data[s.subject].topics[s.topic].remaining_hours > Tolerance
                /\ EarlierTopicsDone(s.subject, s.topic) ]_vars
    /\ [](\A s \in SeqSet(PlacedSessions) :
            s.session_type = "regular" => EarlierTopicsDone(s.subject, s.topic))

\* a subject whose first topic took two regular sessions and whose second
\* topic has one
C23_Witness ==
    \E i \in SubjectIds :
        /\ Len(subject_data[i].topics) = 2
        /\ Len(SelectSeq(PlacedSessions,
                 LAMBDA s : s.subject = i /\ s.topic = 1 /\ s.session_type = "regular")) >= 2
        /\ \E s \in SeqSet(PlacedSessions) :
              s.subject = i /\ s.topic = 2 /\ s.session_type = "regular"

----------------------------------------------------------------------------
(* C24: a High subject is served once a day *)

\* regular sessions of subject i in the session list ss
RegularCount(ss, i) ==
    Len(SelectSeq(ss, LAMBDA s : s.subject = i /\ s.session_type = "regular"))

\* subject i has an exam on date d or within the 4 days after it
UrgentOn(i, d) ==
    /\ subject_data[i].has_exam
    /\ subject_data[i].exam_date >= d
    /\ subject_data[i].exam_date - d < UrgentDays

\* in a day's list ss of date d a High subject has at most one regular
\* session, and a subject with two is Medium or Low and urgent on d
OncePerDay(ss, d) ==
    \A i \in SubjectIds :
        /\ subject_data[i].importance = "High" => RegularCount(ss, i) <= 1
        /\ RegularCount(ss, i) >= 2 =>
              /\ subject_data[i].importance \in { "Medium", "Low" }
              /\ UrgentOn(i, d)

\* the step being taken hands subject i to an allocator
Visits(i) ==
    /\ pc \in { "urgent", "high", "medium", "low" }
    /\ queue # << >>
    /\ Head(queue) = i
    /\ queue' = Tail(queue)

\* C24: a High subject visited in the urgent pass is marked covered for the
\* day; the High pass visits only High subjects that are not covered and have
\* no session that day; a High subject is visited in no other pass; so on
\* every day a High subject has at most one regular session, and only a
\* Medium or Low subject that is urgent that day has two
C24_HighServedOncePerDay ==
    /\ [][ \A i \in SubjectIds :
             (Visits(i) /\ subject_data[i].importance = "High") =>
                /\ pc \in { "urgent", "high" }
                /\ i \notin CoveredToday
                /\ \A s \in SeqSet(day_sessions) : s.subject # i
                /\ pc = "urgent" => i \in high_importance_coverage'[current_date] ]_vars
    /\ [](InDay => OncePerDay(day_sessions, current_date))
    /\ [](\A k \in 1..Len(days) : OncePerDay(days[k].sessions, days[k].date))

\* the end of a day on which an urgent High subject with topic work left got
\* one regular session and an urgent Medium or Low subject got two
C24_Witness ==
    /\ pc = "eod"
    /\ \E i, j \in SubjectIds :
          /\ subject_data[i].importance = "High"
          /\ UrgentOn(i, current_date)
          /\ HasTopicWork(i)
          /\ RegularCount(day_sessions, i) = 1
          /\ subject_data[j].importance \in { "Medium", "Low" }
          /\ RegularCount(day_sessions, j) = 2

====
